---- MODULE Spec2Model ----
(***************************************************************************)
(* Model of wagtail/api/v2/router.py: WagtailAPIRouter, a registry of API  *)
(* endpoint classes with reverse lookup (model -> default endpoint) and    *)
(* URL pattern assembly.                                                   *)
(*                                                                         *)
(* Python values are encoded as follows.  None is the empty tuple.  A dict *)
(* keeps insertion order, so self._endpoints is a sequence of <<name,      *)
(* class>> pairs without repeated names; self._model2endpoint is only ever *)
(* indexed, so it is a function whose DOMAIN is its key set.  A view is    *)
(* <<class, action, wrappers>>, wrappers being the routers whose wrap_view *)
(* closures enclose the endpoint's own view, innermost first.              *)
(***************************************************************************)
EXTENDS Naturals, Sequences, FiniteSets

VARIABLES url_namespace, endpoints, model2endpoint, log, cur, request

vars == <<url_namespace, endpoints, model2endpoint, log, cur, request>>

routerState == <<url_namespace, endpoints, model2endpoint>>

\* Number of register_endpoint calls explored on the single router of Spec.
MaxCalls == 3

\* Number of register_endpoint calls explored over the two routers of SpecTwo.
MaxCallsTwo == 2

None == <<>>

----------------------------------------------------------------------------
\* The objects the host application hands to the router.

Routers == {"r1", "r2"}

Primary == "r1"

Namespace(r) == IF r = "r1" THEN "api" ELSE "adm"

Names == {"pages", "images"}

EndpointClasses == {"EB1", "EB2", "ED", "EN"}

Models == {"B", "D", "X"}

NoModel == "None"

PKs == {1, 2}

\* class_.model
ClassModel(cls) ==
    CASE cls = "EB1" -> "B"
      [] cls = "EB2" -> "B"
      [] cls = "ED"  -> "D"
      [] cls = "EN"  -> NoModel

\* model.__mro__ : class D(B), class B, class X
mro(model) ==
    CASE model = "D" -> <<"D", "B", "object">>
      [] model = "B" -> <<"B", "object">>
      [] model = "X" -> <<"X", "object">>

\* endpoint_class.get_model_listing_urlpath(model, namespace=...); EB2 has
\* no listing view
EndpointListing(cls, model, namespace) ==
    IF cls = "EB2" THEN None ELSE <<"url", "listing", cls, model, namespace>>

\* endpoint_class.get_object_detail_urlpath(model, pk, namespace=...); the
\* object with pk 2 has no detail view
EndpointDetail(cls, model, pk, namespace) ==
    IF pk = 2 THEN None ELSE <<"url", "detail", cls, model, pk, namespace>>

Leaf(cls, action) ==
    [pattern |-> action, app_name |-> "", namespace |-> "",
     callback |-> <<cls, action, <<>> >>, url_patterns |-> <<>>]

\* class_.get_urlpatterns(): fresh patterns on every call; the model-less
\* endpoint nests one more include().
EndpointUrlpatterns(cls) ==
    IF cls = "EN"
    THEN << Leaf(cls, "listing"),
            [pattern |-> "^extra/", app_name |-> "", namespace |-> "",
             callback |-> None, url_patterns |-> << Leaf(cls, "find") >>] >>
    ELSE << Leaf(cls, "listing"), Leaf(cls, "detail") >>

\* What the endpoint's own view returns.
HandlerResult(cls, action) == <<"response", cls, action>>

----------------------------------------------------------------------------
\* dict helpers

DictKeys(d) == {d[i][1] : i \in 1..Len(d)}

DictGet(d, k) == d[CHOOSE i \in 1..Len(d) : d[i][1] = k][2]

\* d[k] = v on an insertion-ordered dict
DictSet(d, k, v) ==
    IF k \in DictKeys(d)
    THEN [i \in 1..Len(d) |-> IF d[i][1] = k THEN <<k, v>> ELSE d[i]]
    ELSE Append(d, <<k, v>>)

\* d.setdefault(k, v)
SetDefault(d, k, v) ==
    IF k \in DOMAIN d
    THEN d
    ELSE [x \in (DOMAIN d) \cup {k} |-> IF x = k THEN v ELSE d[x]]

----------------------------------------------------------------------------
\* WagtailAPIRouter.register_endpoint

\* mutant: the first class registered under a name is kept
RegisterEndpointsKeepFirst(eps, name, cls) ==
    IF name \in DictKeys(eps) THEN eps ELSE Append(eps, <<name, cls>>)

\* self._endpoints[name] = class_
RegisterEndpoints(eps, name, cls) == DictSet(eps, name, cls)

\* mutant: plain assignment instead of setdefault
RegisterDefaultOverwrite(idx, name, cls, as_default_view) ==
    IF as_default_view /\ ClassModel(cls) # NoModel
    THEN [x \in (DOMAIN idx) \cup {ClassModel(cls)} |->
            IF x = ClassModel(cls) THEN <<name, cls>> ELSE idx[x]]
    ELSE idx

\* mutant: an entry is replaced when its name is registered again
RegisterDefaultSameNameReplaces(idx, name, cls, as_default_view) ==
    IF as_default_view /\ ClassModel(cls) # NoModel
    THEN IF ClassModel(cls) \in DOMAIN idx /\ idx[ClassModel(cls)][1] # name
         THEN idx
         ELSE [x \in (DOMAIN idx) \cup {ClassModel(cls)} |->
                 IF x = ClassModel(cls) THEN <<name, cls>> ELSE idx[x]]
    ELSE idx

\* mutant: as_default_view is not looked at
RegisterDefaultIgnoresFlag(idx, name, cls, as_default_view) ==
    IF ClassModel(cls) # NoModel
    THEN SetDefault(idx, ClassModel(cls), <<name, cls>>)
    ELSE idx

\* if as_default_view and class_.model is not None: setdefault(...)
RegisterDefault(idx, name, cls, as_default_view) ==
    IF as_default_view /\ ClassModel(cls) # NoModel
    THEN SetDefault(idx, ClassModel(cls), <<name, cls>>)
    ELSE idx

RECURSIVE FirstInMro(_, _)
FirstInMro(idx, chain) ==
    IF chain = <<>> THEN None
    ELSE IF Head(chain) \in DOMAIN idx THEN idx[Head(chain)]
    ELSE FirstInMro(idx, Tail(chain))

Reverse(q) == [i \in 1..Len(q) |-> q[Len(q) + 1 - i]]

\* mutant: the ancestor list is walked base first
get_model_endpoint_base_first(idx, model) == FirstInMro(idx, Reverse(mro(model)))

\* WagtailAPIRouter.get_model_endpoint
get_model_endpoint(idx, model) == FirstInMro(idx, mro(model))

\* mutant: the namespace handed to the endpoint lacks the router's own
get_model_listing_urlpath_bare_name(ns, idx, model) ==
    LET endpoint == FirstInMro(idx, mro(model)) IN
    IF endpoint # None
    THEN [value |-> EndpointListing(endpoint[2], model, endpoint[1]),
          calls |-> << <<"listing", endpoint[2], model, endpoint[1]>> >>]
    ELSE [value |-> None, calls |-> <<>>]

\* WagtailAPIRouter.get_model_listing_urlpath: the value returned and the
\* calls made to the endpoint class
get_model_listing_urlpath(ns, idx, model) ==
    LET endpoint == get_model_endpoint(idx, model) IN
    IF endpoint # None
    THEN LET endpoint_name == endpoint[1]
             endpoint_class == endpoint[2]
             qualified == ns \o ":" \o endpoint_name
         IN [value |-> EndpointListing(endpoint_class, model, qualified),
             calls |-> << <<"listing", endpoint_class, model, qualified>> >>]
    ELSE [value |-> None, calls |-> <<>>]

\* mutant: no "if endpoint" test, so None[0] raises TypeError
get_object_detail_urlpath_unchecked(ns, idx, model, pk) ==
    LET endpoint == FirstInMro(idx, mro(model)) IN
    IF endpoint # None
    THEN [value |-> EndpointDetail(endpoint[2], model, pk, ns \o ":" \o endpoint[1]),
          calls |-> << <<"detail", endpoint[2], model, pk, ns \o ":" \o endpoint[1]>> >>]
    ELSE [value |-> <<"raise", "TypeError">>, calls |-> <<>>]

\* WagtailAPIRouter.get_object_detail_urlpath
get_object_detail_urlpath(ns, idx, model, pk) ==
    LET endpoint == get_model_endpoint(idx, model) IN
    IF endpoint # None
    THEN LET endpoint_name == endpoint[1]
             endpoint_class == endpoint[2]
             qualified == ns \o ":" \o endpoint_name
         IN [value |-> EndpointDetail(endpoint_class, model, pk, qualified),
             calls |-> << <<"detail", endpoint_class, model, pk, qualified>> >>]
    ELSE [value |-> None, calls |-> <<>>]

\* mutant: the closure holds one process-wide router instead of self
wrap_view_global(self, func) == <<func[1], func[2], Append(func[3], "r1")>>

\* WagtailAPIRouter.wrap_view: the closure over self around func
wrap_view(self, func) == <<func[1], func[2], Append(func[3], self)>>

\* wagtail.utils.urlpatterns.decorate_urlpatterns: every callback, nested
\* ones included, is replaced by decorator(callback)
RECURSIVE decorate_urlpatterns(_, _)
decorate_urlpatterns(urlpatterns, self) ==
    [i \in 1..Len(urlpatterns) |->
        [urlpatterns[i] EXCEPT
            !.url_patterns = decorate_urlpatterns(@, self),
            !.callback = IF @ # None THEN wrap_view(self, @) ELSE @]]

\* re_path(rf"^{name}/", include((class_.get_urlpatterns(), name), namespace=name))
IncludePattern(name, cls) ==
    [pattern |-> "^" \o name \o "/", app_name |-> name, namespace |-> name,
     callback |-> None, url_patterns |-> EndpointUrlpatterns(cls)]

\* mutant: only endpoints that expose a model are routed
get_urlpatterns_models_only(self, eps) ==
    LET HasModel(p) == ClassModel(p[2]) # NoModel
        kept == SelectSeq(eps, HasModel)
    IN decorate_urlpatterns(
           [i \in 1..Len(kept) |-> IncludePattern(kept[i][1], kept[i][2])], self)

\* WagtailAPIRouter.get_urlpatterns
get_urlpatterns(self, eps) ==
    decorate_urlpatterns(
        [i \in 1..Len(eps) |-> IncludePattern(eps[i][1], eps[i][2])], self)

\* WagtailAPIRouter.urls
urls(self, ns, eps) == <<get_urlpatterns(self, eps), ns, ns>>

\* the callbacks a request can reach through a list of patterns
RECURSIVE Callbacks(_)
Callbacks(urlpatterns) ==
    UNION { (IF urlpatterns[i].callback # None
             THEN {urlpatterns[i].callback} ELSE {})
            \cup Callbacks(urlpatterns[i].url_patterns)
          : i \in 1..Len(urlpatterns) }

----------------------------------------------------------------------------
\* State machine

IdleRequest ==
    [pc |-> "idle", via |-> "none", view |-> None, pending |-> <<>>,
     wagtailapi_router |-> "none", seen |-> "none", response |-> None]

Call(op, r, args, value, calls) ==
    [op |-> op, router |-> r, args |-> args, value |-> value, calls |-> calls]

\* WagtailAPIRouter.__init__ for each router; nothing called yet
Init ==
    /\ url_namespace = [r \in Routers |-> Namespace(r)]
    /\ endpoints = [r \in Routers |-> <<>>]
    /\ model2endpoint = [r \in Routers |-> <<>>]
    /\ log = <<>>
    /\ cur = Call("init", "none", <<>>, None, <<>>)
    /\ request = IdleRequest

NoRequestRunning == request.pc \in {"idle", "done"}

Register(r, name, cls, as_default_view) ==
    /\ NoRequestRunning
    /\ endpoints' = [endpoints EXCEPT ![r] = RegisterEndpoints(@, name, cls)]
    /\ model2endpoint' =
         [model2endpoint EXCEPT ![r] = RegisterDefault(@, name, cls, as_default_view)]
    /\ log' = Append(log, [router |-> r, name |-> name, class |-> cls,
                           as_default_view |-> as_default_view])
    /\ cur' = Call("register_endpoint", r, <<name, cls, as_default_view>>, None, <<>>)
    /\ request' = IdleRequest
    /\ UNCHANGED url_namespace

\* mutant: the endpoint found for a model is remembered in the index
GetModelEndpointCaching(r, model) ==
    /\ NoRequestRunning
    /\ LET found == get_model_endpoint(model2endpoint[r], model) IN
       /\ cur' = Call("get_model_endpoint", r, <<model>>, found, <<>>)
       /\ model2endpoint' = [model2endpoint EXCEPT ![r] =
              IF found # None THEN SetDefault(@, model, found) ELSE @]
    /\ request' = IdleRequest
    /\ UNCHANGED <<url_namespace, endpoints, log>>

GetModelEndpoint(r, model) ==
    /\ NoRequestRunning
    /\ cur' = Call("get_model_endpoint", r, <<model>>,
                   get_model_endpoint(model2endpoint[r], model), <<>>)
    /\ request' = IdleRequest
    /\ UNCHANGED <<routerState, log>>

GetModelListingUrlpath(r, model) ==
    /\ NoRequestRunning
    /\ LET res == get_model_listing_urlpath(url_namespace[r], model2endpoint[r], model)
       IN cur' = Call("get_model_listing_urlpath", r, <<model>>, res.value, res.calls)
    /\ request' = IdleRequest
    /\ UNCHANGED <<routerState, log>>

GetObjectDetailUrlpath(r, model, pk) ==
    /\ NoRequestRunning
    /\ LET res == get_object_detail_urlpath(url_namespace[r], model2endpoint[r], model, pk)
       IN cur' = Call("get_object_detail_urlpath", r, <<model, pk>>, res.value, res.calls)
    /\ request' = IdleRequest
    /\ UNCHANGED <<routerState, log>>

GetUrlpatterns(r) ==
    /\ NoRequestRunning
    /\ cur' = Call("get_urlpatterns", r, <<>>, get_urlpatterns(r, endpoints[r]), <<>>)
    /\ request' = IdleRequest
    /\ UNCHANGED <<routerState, log>>

Urls(r) ==
    /\ NoRequestRunning
    /\ cur' = Call("urls", r, <<>>, urls(r, url_namespace[r], endpoints[r]), <<>>)
    /\ request' = IdleRequest
    /\ UNCHANGED <<routerState, log>>

\* The framework resolves a request to one callback of the patterns that
\* get_urlpatterns has just returned and calls it.
Dispatch(cb) ==
    /\ NoRequestRunning
    /\ cur.op = "get_urlpatterns"
    /\ cb \in Callbacks(cur.value)
    /\ request' = [pc |-> "called", via |-> cur.router, view |-> cb,
                   pending |-> cb[3], wagtailapi_router |-> "none",
                   seen |-> "none", response |-> None]
    /\ UNCHANGED <<routerState, log, cur>>

\* wrapped(): request.wagtailapi_router = self, then func(...)
WrappedSetsRouter ==
    /\ request.pc = "called"
    /\ request.pending # <<>>
    /\ request' = [request EXCEPT
                     !.wagtailapi_router = request.pending[Len(request.pending)],
                     !.pending = SubSeq(@, 1, Len(@) - 1)]
    /\ UNCHANGED <<routerState, log, cur>>

\* the endpoint's own view runs and its result is returned through the wrappers
HandlerRuns ==
    /\ request.pc = "called"
    /\ request.pending = <<>>
    /\ request' = [request EXCEPT
                     !.pc = "done",
                     !.seen = request.wagtailapi_router,
                     !.response = HandlerResult(request.view[1], request.view[2])]
    /\ UNCHANGED <<routerState, log, cur>>

\* One router, every public method.
Next ==
    \E r \in {Primary} :
        \/ \E name \in Names, cls \in EndpointClasses, d \in BOOLEAN :
               Len(log) < MaxCalls /\ Register(r, name, cls, d)
        \/ \E model \in Models : GetModelEndpoint(r, model)
        \/ \E model \in Models : GetModelListingUrlpath(r, model)
        \/ \E model \in Models, pk \in PKs : GetObjectDetailUrlpath(r, model, pk)
        \/ GetUrlpatterns(r)
        \/ Urls(r)

Spec == Init /\ [][Next]_vars

\* Two routers side by side: registration, route building and requests.
NextTwo ==
    \/ \E r \in Routers, name \in Names, cls \in EndpointClasses, d \in BOOLEAN :
           Len(log) < MaxCallsTwo /\ Register(r, name, cls, d)
    \/ \E r \in Routers : GetUrlpatterns(r)
    \/ \E cls \in EndpointClasses, action \in {"listing", "detail", "find"},
          w \in {<<>>} \cup {<<r>> : r \in Routers} : Dispatch(<<cls, action, w>>)
    \/ WrappedSetsRouter
    \/ HandlerRuns

SpecTwo == Init /\ [][NextTwo]_vars

----------------------------------------------------------------------------
\* Vocabulary of the properties: the history of register_endpoint calls.

Min(S) == CHOOSE x \in S : \A y \in S : x <= y

Max(S) == CHOOSE x \in S : \A y \in S : x >= y

\* positions in the log of the calls made on router r
CallsOn(r) == {i \in 1..Len(log) : log[i].router = r}

\* ... of those that ask to be the default for exactly model m
DefaultCallsFor(r, m) ==
    {i \in CallsOn(r) : log[i].as_default_view /\ ClassModel(log[i].class) = m}

\* ... of those made under a name
CallsUnder(r, name) == {i \in CallsOn(r) : log[i].name = name}

AllTypes == Models \cup {"object"}

\* positions in a model's ancestor list that are keys of the default index
KeyPositions(r, model) ==
    {i \in 1..Len(mro(model)) : mro(model)[i] \in DOMAIN model2endpoint[r]}

Resolvable(r, model) == KeyPositions(r, model) # {}

\* the default-index entry of the most derived ancestor that has one
ResolvedEntry(r, model) == model2endpoint[r][mro(model)[Min(KeyPositions(r, model))]]

LookupOps ==
    {"get_model_endpoint", "get_model_listing_urlpath", "get_object_detail_urlpath"}

RegisterStep == Len(log') = Len(log) + 1

\* C1: the default-index entry for a model type M is the (name, class) of
\* the earliest register call with as_default_view true whose class's model
\* is exactly M, and there is no entry for M when there was no such call; an
\* entry, once present, is therefore never changed or removed.
C1_FirstDefaultWins ==
    \A r \in Routers :
        /\ DOMAIN model2endpoint[r] \subseteq AllTypes
        /\ \A m \in AllTypes :
              IF DefaultCallsFor(r, m) = {}
              THEN m \notin DOMAIN model2endpoint[r]
              ELSE /\ m \in DOMAIN model2endpoint[r]
                   /\ LET first == log[Min(DefaultCallsFor(r, m))]
                      IN model2endpoint[r][m] = <<first.name, first.class>>

C1_Witness ==
    /\ Cardinality(DefaultCallsFor(Primary, "B")) >= 2
    /\ \E i, j \in DefaultCallsFor(Primary, "B") : log[i].class # log[j].class
    /\ model2endpoint[Primary]["B"][2] # log[Max(DefaultCallsFor(Primary, "B"))].class

\* C2: the registry holds, under each name, the class of the most recent
\* register call under that name, whatever as_default_view and the class's
\* model were, each name once; every register call returns normally.
C2_LastRegistrationWins ==
    /\ \A r \in Routers :
          /\ Len(endpoints[r]) = Cardinality(DictKeys(endpoints[r]))
          /\ DictKeys(endpoints[r]) = {log[i].name : i \in CallsOn(r)}
          /\ \A name \in DictKeys(endpoints[r]) :
                DictGet(endpoints[r], name) = log[Max(CallsUnder(r, name))].class
    /\ cur.op = "register_endpoint" => cur.value = None

C2_Witness ==
    \E name \in Names :
        /\ Cardinality(CallsUnder(Primary, name)) >= 2
        /\ log[Min(CallsUnder(Primary, name))].class
             # log[Max(CallsUnder(Primary, name))].class
        /\ ClassModel(log[Min(CallsUnder(Primary, name))].class)
             = ClassModel(log[Max(CallsUnder(Primary, name))].class)
        /\ log[Max(CallsUnder(Primary, name))].as_default_view

\* the case of C3: call i registers E1, call j registers E2 under the same
\* name, both as default and both for model m; i is the first default call
\* for m and j the last call under the name
SameNameTwice(r, i, j, m) ==
    /\ i < j
    /\ log[i].name = log[j].name
    /\ log[i].class # log[j].class
    /\ i = Min(DefaultCallsFor(r, m))
    /\ j \in DefaultCallsFor(r, m)
    /\ j = Max(CallsUnder(r, log[j].name))

\* C3: after E1 then E2 are registered under one name, both as default and
\* both for model M, the registry holds E2 under the name while
\* get_model_endpoint(M) still returns (name, E1).
C3_OverwrittenNameKeepsDefault ==
    \A r \in Routers, m \in Models :
        \A i, j \in DefaultCallsFor(r, m) :
            SameNameTwice(r, i, j, m) =>
                /\ DictGet(endpoints[r], log[j].name) = log[j].class
                /\ get_model_endpoint(model2endpoint[r], m) = <<log[i].name, log[i].class>>
                /\ get_model_endpoint(model2endpoint[r], m)[2]
                     # DictGet(endpoints[r], log[i].name)

C3_Witness ==
    /\ \E i, j \in DefaultCallsFor(Primary, "B") : SameNameTwice(Primary, i, j, "B")
    /\ cur.op = "get_model_endpoint"
    /\ cur.args = <<"B">>

\* C4: get_model_endpoint returns the default-index entry of the first type
\* of the model's ancestor list, most derived first, that is a key of the
\* index; so D falls back to B's entry while D has none, and D's own entry
\* wins once it exists, B's answer staying B's entry.
C4_MostDerivedAncestorWins ==
    /\ \A r \in Routers, model \in Models :
          Resolvable(r, model) =>
              get_model_endpoint(model2endpoint[r], model) = ResolvedEntry(r, model)
    /\ (cur.op = "get_model_endpoint" /\ Resolvable(cur.router, cur.args[1])) =>
          cur.value = ResolvedEntry(cur.router, cur.args[1])
    /\ \A r \in Routers :
          "B" \in DOMAIN model2endpoint[r] =>
              /\ get_model_endpoint(model2endpoint[r], "B") = model2endpoint[r]["B"]
              /\ get_model_endpoint(model2endpoint[r], "D")
                   = IF "D" \in DOMAIN model2endpoint[r]
                     THEN model2endpoint[r]["D"]
                     ELSE model2endpoint[r]["B"]

\* D's endpoint was registered before B's, and D still resolves to its own
C4_Witness ==
    /\ DefaultCallsFor(Primary, "D") # {}
    /\ DefaultCallsFor(Primary, "B") # {}
    /\ Min(DefaultCallsFor(Primary, "D")) < Min(DefaultCallsFor(Primary, "B"))
    /\ cur.op = "get_model_endpoint"
    /\ cur.args = <<"D">>
    /\ cur.value[2] = "ED"

\* C5: for a model none of whose ancestor types is a key of the default
\* index, the three lookups return None and call no endpoint path builder.
C5_UnresolvableIsNone ==
    (cur.op \in LookupOps /\ ~Resolvable(cur.router, cur.args[1])) =>
        /\ cur.value = None
        /\ cur.calls = <<>>

C5_Witness ==
    /\ cur.op = "get_object_detail_urlpath"
    /\ cur.args = <<"X", 1>>
    /\ DOMAIN model2endpoint[Primary] = {"B", "D"}

\* C6: for a resolvable model, the listing and detail lookups call the path
\* builder of the class in the resolved entry exactly once, with the queried
\* model and the namespace url_namespace:name of that entry, and return the
\* builder's result as it is, None included.
C6_DelegatesToResolvedEndpoint ==
    /\ (cur.op = "get_model_listing_urlpath" /\ Resolvable(cur.router, cur.args[1])) =>
          LET e == ResolvedEntry(cur.router, cur.args[1])
              ns == url_namespace[cur.router] \o ":" \o e[1]
          IN /\ cur.calls = << <<"listing", e[2], cur.args[1], ns>> >>
             /\ cur.value = EndpointListing(e[2], cur.args[1], ns)
    /\ (cur.op = "get_object_detail_urlpath" /\ Resolvable(cur.router, cur.args[1])) =>
          LET e == ResolvedEntry(cur.router, cur.args[1])
              ns == url_namespace[cur.router] \o ":" \o e[1]
          IN /\ cur.calls = << <<"detail", e[2], cur.args[1], cur.args[2], ns>> >>
             /\ cur.value = EndpointDetail(e[2], cur.args[1], cur.args[2], ns)

\* D is resolved through its ancestor B and the builder has no path to give
C6_Witness ==
    /\ cur.op = "get_model_listing_urlpath"
    /\ cur.args = <<"D">>
    /\ cur.calls = << <<"listing", "EB2", "D", "api:images">> >>
    /\ cur.value = None

\* the (class, action) pairs of the views under a list of patterns
ViewsOf(urlpatterns) == {<<cb[1], cb[2]>> : cb \in Callbacks(urlpatterns)}

\* C7: get_urlpatterns returns one top-level pattern per distinct registered
\* name: it matches the prefix name/, its namespace is the name, and it
\* nests the routes of the class registered last under the name, as_default
\* or not, with or without a model.
C7_OneFragmentPerName ==
    cur.op = "get_urlpatterns" =>
        LET r == cur.router
            names == {log[i].name : i \in CallsOn(r)}
        IN /\ Len(cur.value) = Cardinality(names)
           /\ \A name \in names :
                 \E i \in 1..Len(cur.value) :
                    LET cls == log[Max(CallsUnder(r, name))].class IN
                    /\ cur.value[i].pattern = "^" \o name \o "/"
                    /\ cur.value[i].namespace = name
                    /\ cur.value[i].app_name = name
                    /\ cur.value[i].callback = None
                    /\ ViewsOf(cur.value[i].url_patterns)
                         = ViewsOf(EndpointUrlpatterns(cls))
                    /\ Len(cur.value[i].url_patterns) = Len(EndpointUrlpatterns(cls))

\* two names, one re-registered without a model and not as default
C7_Witness ==
    /\ cur.op = "get_urlpatterns"
    /\ Len(cur.value) = 2
    /\ Len(log) = 3
    /\ \E i \in 1..2 : /\ cur.value[i].pattern = "^pages/"
                       /\ ViewsOf(cur.value[i].url_patterns)
                            = {<<"EN", "listing">>, <<"EN", "find">>}
    /\ ~log[3].as_default_view
    /\ log[3].class = "EN"

\* C8: every view reachable through the patterns of get_urlpatterns is
\* wrapped by the wrap_view of the router that built them; when the
\* endpoint's view starts, request.wagtailapi_router is that router (not
\* another one), and the caller gets the view's own result.
C8_RequestCarriesRouter ==
    /\ cur.op = "get_urlpatterns" =>
          \A cb \in Callbacks(cur.value) : cb[3] = <<cur.router>>
    /\ (request.pc = "called" /\ request.pending = <<>>) =>
          request.wagtailapi_router = request.via
    /\ request.pc = "done" =>
          /\ request.seen = request.via
          /\ request.response = HandlerResult(request.view[1], request.view[2])

\* both routers have endpoints; the request came in through the second one
\* and reached a nested route
C8_Witness ==
    /\ request.pc = "done"
    /\ request.via = "r2"
    /\ request.seen = "r2"
    /\ request.view[2] = "find"
    /\ endpoints["r1"] # <<>>
    /\ endpoints["r2"] # <<>>

\* C9: a register call with as_default_view false, or with a class whose
\* model is None, leaves the default index as it was, and every entry of the
\* index comes from a call with as_default_view true for the entry's key; a
\* later call with as_default_view true for a model that has no entry yet
\* becomes its default.
C9_NonDefaultLeavesIndex ==
    [][RegisterStep =>
        LET c == log'[Len(log')] IN
        /\ (~c.as_default_view \/ ClassModel(c.class) = NoModel) =>
              model2endpoint' = model2endpoint
        /\ (c.as_default_view /\ ClassModel(c.class) # NoModel
              /\ ClassModel(c.class) \notin DOMAIN model2endpoint[c.router]) =>
              model2endpoint'[c.router][ClassModel(c.class)] = <<c.name, c.class>>
        /\ \A m \in DOMAIN model2endpoint'[c.router] :
              \E i \in 1..Len(log') :
                 /\ log'[i].router = c.router
                 /\ log'[i].as_default_view
                 /\ ClassModel(log'[i].class) = m
                 /\ model2endpoint'[c.router][m] = <<log'[i].name, log'[i].class>>
      ]_vars

\* EB1 was registered without as_default_view, EN has no model; EB2, which
\* came last, is the default for B
C9_Witness ==
    /\ Len(log) = 3
    /\ log[1].class = "EB1" /\ ~log[1].as_default_view
    /\ log[2].class = "EN" /\ log[2].as_default_view
    /\ log[3].class = "EB2" /\ log[3].as_default_view
    /\ model2endpoint[Primary] = [m \in {"B"} |-> <<log[3].name, "EB2">>]

\* what a call of the operation recorded in cur would return now
Again ==
    LET r == cur.router IN
    CASE cur.op = "get_model_endpoint" ->
           get_model_endpoint(model2endpoint[r], cur.args[1])
      [] cur.op = "get_model_listing_urlpath" ->
           get_model_listing_urlpath(url_namespace[r], model2endpoint[r], cur.args[1]).value
      [] cur.op = "get_object_detail_urlpath" ->
           get_object_detail_urlpath(url_namespace[r], model2endpoint[r],
                                     cur.args[1], cur.args[2]).value
      [] cur.op = "get_urlpatterns" -> get_urlpatterns(r, endpoints[r])
      [] cur.op = "urls" -> urls(r, url_namespace[r], endpoints[r])

ReadOps == LookupOps \cup {"get_urlpatterns", "urls"}

\* C10: the lookups, get_urlpatterns and urls leave the namespace, the
\* registry and the default index as they were, so the same call made again
\* returns the same value; urls returns the patterns with the namespace
\* twice.
C10_ReadsChangeNothing ==
    /\ [][~RegisterStep => routerState' = routerState]_vars
    /\ [](cur.op \in ReadOps => cur.value = Again)
    /\ [](cur.op = "urls" =>
             /\ cur.value[2] = url_namespace[cur.router]
             /\ cur.value[3] = url_namespace[cur.router]
             /\ cur.value[1] = get_urlpatterns(cur.router, endpoints[cur.router]))

C10_Witness ==
    /\ cur.op = "urls"
    /\ Len(cur.value[1]) = 2
    /\ cur.value[2] = "api"
    /\ DOMAIN model2endpoint[Primary] = {"B", "D"}

====
